---------------------------- MODULE Spec2Model ----------------------------
(***************************************************************************)
(* A model of policygenerator_ai/generator.py: the PolicyGenerator class,  *)
(* its outline table, the per-section completion requests, the assembly of *)
(* the policy record and the two exporters.                                *)
(*                                                                         *)
(* A generator instance g moves through                                    *)
(*   "new"    not constructed yet                                          *)
(*   "ready"  constructed, generate_policy not called                      *)
(*   "loop"   inside generate_policy, at the head of the for loop          *)
(*   "await"  blocked in openai.ChatCompletion.create                      *)
(*   "done"   generate_policy returned its record                          *)
(*   "raised" generate_policy ended in an exception                        *)
(***************************************************************************)
EXTENDS Naturals, Sequences, FiniteSets, TLC

VARIABLES
    environ,         \* os.environ["OPENAI_API_KEY"], None when unset
    openai_api_key,  \* the module attribute openai.api_key
    self_api_key,    \* g -> self.api_key
    pc,              \* g -> position of the instance (see above)
    config,          \* g -> the PolicyConfig passed to generate_policy
    section_names,   \* g -> local section_names of _generate_policy_sections
    sections,        \* g -> local sections of _generate_policy_sections
    requests,        \* g -> completion requests issued by the run, in order
    responses,       \* g -> what the collaborator answered to each request
    policy,          \* g -> the record generate_policy returned
    log,             \* g -> events emitted through self.logger
    exports          \* the export calls made so far, in order

vars == << environ, openai_api_key, self_api_key, pc, config, section_names,
           sections, requests, responses, policy, log, exports >>

None == "None"

Gens == {"g1", "g2"}

----------------------------------------------------------------------------
(* Bounds and input sets                                                   *)

MaxExports == 2

ApiKeys == {None, "sk-A", "sk-B"}
EnvKeys == {None, "sk-env"}

Frameworks == {"ISO27001", "RGPD", "GDPR", "NIS2", "SOC2", "PCI-DSS", "UNKNOWN_FW"}
Orgs == {"Acme"}

Configs(fws) ==
    [framework : fws, organization_name : Orgs, industry : {"Finance"},
     size : {"medium"}, language : {"en"}]

(* What the text-generation collaborator can do with one request: raise a  *)
(* transport or quota error, or return a response whose choices hold the   *)
(* generated text, or a malformed response with no choices at all.         *)
Response(choices) == [kind |-> "response", error |-> None, choices |-> choices]
Failure(err) == [kind |-> "error", error |-> err, choices |-> << >>]

Texts == {"generated text one", "generated text two"}

Outcomes ==
    {Response(<< t >>) : t \in Texts}
        \cup {Response(<< >>)}
        \cup {Failure("APIConnectionError"), Failure("RateLimitError")}

FewOutcomes == {Response(<< "generated text one" >>), Failure("APIConnectionError")}

WriterErrors == {"PermissionError", "OSError"}
WriterOutcomes == {None} \cup WriterErrors
Paths == {"policy.out"}

----------------------------------------------------------------------------
(* The outline table and the pure helpers                                  *)

SectionCap == 5

framework_templates ==
    [fw \in {"ISO27001", "RGPD", "NIS2"} |->
        CASE fw = "ISO27001" ->
                << "Information Security Policy",
                   "Organization of Information Security",
                   "Human Resource Security",
                   "Asset Management",
                   "Access Control",
                   "Cryptography",
                   "Physical and Environmental Security",
                   "Operations Security",
                   "Communications Security",
                   "System Acquisition, Development and Maintenance",
                   "Supplier Relationships",
                   "Information Security Incident Management",
                   "Business Continuity Management",
                   "Compliance" >>
          [] fw = "RGPD" ->
                << "Data Protection Principles",
                   "Lawful Basis for Processing",
                   "Data Subject Rights",
                   "Data Security Measures",
                   "Data Breach Notification",
                   "Data Protection Impact Assessment",
                   "Data Protection Officer",
                   "International Data Transfers" >>
          [] fw = "NIS2" ->
                << "Risk Management",
                   "Corporate Governance",
                   "Business Continuity",
                   "Supply Chain Security",
                   "Security in Network and Information Systems",
                   "Incident Handling",
                   "Security Testing and Auditing" >>]

(* dict.get(key, default) *)
DictGetDefaultFirst(d, key, default) ==
    IF key \in DOMAIN d THEN d[key] ELSE d["ISO27001"]

DictGet(d, key, default) ==
    IF key \in DOMAIN d THEN d[key] ELSE default

Min(a, b) == IF a < b THEN a ELSE b

(* s[:n] *)
SliceOneMore(s, n) == SubSeq(s, 1, Min(n + 1, Len(s)))

Slice(s, n) == SubSeq(s, 1, Min(n, Len(s)))

(* the f-string of line 55 *)
PolicyTitle(cfg) ==
    cfg.framework \o " Security Policy - " \o cfg.organization_name

(* the f-string of lines 119-131 *)
BuildPrompt(section_name, cfg) ==
    "Generate a comprehensive " \o section_name \o " section for a "
        \o cfg.framework \o " security policy.\n\n"
        \o "Organization: " \o cfg.organization_name \o "\n"
        \o "Industry: " \o cfg.industry \o "\n"
        \o "Size: " \o cfg.size \o "\n\n"
        \o "Provide detailed, professional content with:\n"
        \o "- Clear objectives\n"
        \o "- Specific requirements\n"
        \o "- Implementation guidelines\n"
        \o "- Compliance requirements\n\n"
        \o "Format in professional policy language."

(* the arguments of openai.ChatCompletion.create; the library reads the    *)
(* credentials from the module attribute openai.api_key when it sends.     *)
CompletionRequest(section_name, cfg, key) ==
    [ api_key     |-> key,
      model       |-> "gpt-4",
      messages    |-> << [role |-> "system",
                          content |-> "You are a cybersecurity policy expert."],
                         [role |-> "user",
                          content |-> BuildPrompt(section_name, cfg)] >>,
      temperature |-> "0.3",
      max_tokens  |-> 1000,
      section     |-> section_name ]

(* What evaluating lines 134-144 raises for a collaborator outcome: the    *)
(* collaborator's own error, or IndexError from response.choices[0].       *)
RaisedBy(o) ==
    IF o.kind = "error" THEN o.error
    ELSE IF o.choices = << >> THEN "IndexError"
    ELSE None

(* except Exception: every error above is an Exception *)
ExceptOnlyConnection(err) == err = "APIConnectionError"

ExceptException(err) ==
    err \in {"APIConnectionError", "RateLimitError", "IndexError"}

(* the f-string of line 148 *)
PlaceholderUntitled(section_name) == "[Section content]"

Placeholder(section_name) == "[Section content for " \o section_name \o "]"

(* the dict literal of lines 54-63 *)
PolicyRecord(cfg, secs) ==
    [ title     |-> PolicyTitle(cfg),
      framework |-> cfg.framework,
      sections  |-> secs,
      metadata  |-> [ organization |-> cfg.organization_name,
                      industry     |-> cfg.industry,
                      generated_by |-> "Ayi NEDJIMI - ayinedjimi-consultants.fr" ] ]

----------------------------------------------------------------------------
(* State                                                                   *)

Init ==
    /\ environ \in EnvKeys
    /\ openai_api_key = None
    /\ self_api_key = [g \in Gens |-> None]
    /\ pc = [g \in Gens |-> "new"]
    /\ config = [g \in Gens |-> None]
    /\ section_names = [g \in Gens |-> << >>]
    /\ sections = [g \in Gens |-> << >>]
    /\ requests = [g \in Gens |-> << >>]
    /\ responses = [g \in Gens |-> << >>]
    /\ policy = [g \in Gens |-> None]
    /\ log = [g \in Gens |-> << >>]
    /\ exports = << >>

(* PolicyGenerator.__init__ *)
Construct(g, api_key) ==
    /\ pc[g] = "new"
    /\ LET key == IF api_key \in {None, ""} THEN environ ELSE api_key
       IN  /\ self_api_key' = [self_api_key EXCEPT ![g] = key]
           /\ openai_api_key' = key
    /\ pc' = [pc EXCEPT ![g] = "ready"]
    /\ UNCHANGED << environ, config, section_names, sections, requests,
                    responses, policy, log, exports >>

(* generate_policy up to the head of the loop of _generate_policy_sections *)
GeneratePolicy(g, cfg) ==
    /\ pc[g] = "ready"
    /\ config' = [config EXCEPT ![g] = cfg]
    /\ log' = [log EXCEPT ![g] =
                  Append(@, [event |-> "Generating policy", detail |-> cfg.framework])]
    /\ section_names' = [section_names EXCEPT ![g] =
                            DictGet(framework_templates, cfg.framework, << >>)]
    /\ sections' = [sections EXCEPT ![g] = << >>]
    /\ pc' = [pc EXCEPT ![g] = "loop"]
    /\ UNCHANGED << environ, openai_api_key, self_api_key, requests, responses,
                    policy, exports >>

(* the entries the for loop of line 108 iterates over *)
LoopItems(g) == Slice(section_names[g], SectionCap)

(* One iteration up to the point where the completion request is sent.     *)
CallCollaboratorAgain(g) ==
    /\ pc[g] = "loop"
    /\ Len(sections[g]) < Len(LoopItems(g))
    /\ LET section_name == LoopItems(g)[Len(sections[g]) + 1]
           req == CompletionRequest(section_name, config[g], openai_api_key)
       IN  requests' = [requests EXCEPT ![g] = Append(Append(@, req), req)]
    /\ pc' = [pc EXCEPT ![g] = "await"]
    /\ UNCHANGED << environ, openai_api_key, self_api_key, config, section_names,
                    sections, responses, policy, log, exports >>

CallCollaborator(g) ==
    /\ pc[g] = "loop"
    /\ Len(sections[g]) < Len(LoopItems(g))
    /\ LET section_name == LoopItems(g)[Len(sections[g]) + 1]
       IN  requests' = [requests EXCEPT ![g] =
               Append(@, CompletionRequest(section_name, config[g], openai_api_key))]
    /\ pc' = [pc EXCEPT ![g] = "await"]
    /\ UNCHANGED << environ, openai_api_key, self_api_key, config, section_names,
                    sections, responses, policy, log, exports >>

(* The request returns or fails; lines 144-148 and 110-113.                *)
CollaboratorReturns(g, o) ==
    /\ pc[g] = "await"
    /\ responses' = [responses EXCEPT ![g] = Append(@, o)]
    /\ LET section_name == LoopItems(g)[Len(sections[g]) + 1]
           err == RaisedBy(o)
       IN  IF err = None
           THEN /\ sections' = [sections EXCEPT ![g] =
                       Append(@, [title |-> section_name, content |-> o.choices[1]])]
                /\ pc' = [pc EXCEPT ![g] = "loop"]
                /\ log' = log
           ELSE IF ExceptException(err)
           THEN /\ log' = [log EXCEPT ![g] =
                       Append(@, [event |-> "LLM generation failed", detail |-> err])]
                /\ sections' = [sections EXCEPT ![g] =
                       Append(@, [title |-> section_name,
                                  content |-> Placeholder(section_name)])]
                /\ pc' = [pc EXCEPT ![g] = "loop"]
           ELSE /\ pc' = [pc EXCEPT ![g] = "raised"]
                /\ UNCHANGED << sections, log >>
    /\ UNCHANGED << environ, openai_api_key, self_api_key, config, section_names,
                    requests, policy, exports >>

(* The loop is exhausted: lines 115 and 54-63.                             *)
ReturnPolicy(g) ==
    /\ pc[g] = "loop"
    /\ Len(sections[g]) = Len(LoopItems(g))
    /\ policy' = [policy EXCEPT ![g] = PolicyRecord(config[g], sections[g])]
    /\ pc' = [pc EXCEPT ![g] = "done"]
    /\ UNCHANGED << environ, openai_api_key, self_api_key, config, section_names,
                    sections, requests, responses, log, exports >>

----------------------------------------------------------------------------
(* The exporters.  A block is one instruction handed to the document       *)
(* writer: python-docx headings, paragraphs and page breaks, or reportlab  *)
(* Paragraph and Spacer flowables.                                         *)

Block(kind, text, style) == [kind |-> kind, text |-> text, style |-> style]

(* the loop of lines 164-167 *)
RECURSIVE DocxSectionBlocksSkippingPlaceholders(_)
DocxSectionBlocksSkippingPlaceholders(secs) ==
    IF secs = << >> THEN << >>
    ELSE (IF Head(secs).content = "[Section content for " \o Head(secs).title \o "]"
          THEN << >>
          ELSE << Block("heading", Head(secs).title, "1"),
                  Block("paragraph", Head(secs).content, "Normal"),
                  Block("page_break", "", "") >>)
         \o DocxSectionBlocksSkippingPlaceholders(Tail(secs))

RECURSIVE DocxSectionBlocks(_)
DocxSectionBlocks(secs) ==
    IF secs = << >> THEN << >>
    ELSE << Block("heading", Head(secs).title, "1"),
            Block("paragraph", Head(secs).content, "Normal"),
            Block("page_break", "", "") >>
         \o DocxSectionBlocks(Tail(secs))

(* lines 152-167 *)
DocxBlocks(p) ==
    << Block("heading", p.title, "0"),
       Block("paragraph", "Organization: " \o p.metadata.organization, "Normal"),
       Block("paragraph", "Framework: " \o p.framework, "Normal"),
       Block("paragraph", "Generated by: " \o p.metadata.generated_by, "Normal"),
       Block("page_break", "", "") >>
    \o DocxSectionBlocks(p.sections)

(* the loop of lines 187-191 *)
RECURSIVE PdfSectionBlocks(_)
PdfSectionBlocks(secs) ==
    IF secs = << >> THEN << >>
    ELSE << Block("paragraph", Head(secs).title, "Heading1"),
            Block("spacer", "", "6"),
            Block("paragraph", Head(secs).content, "Normal"),
            Block("spacer", "", "12") >>
         \o PdfSectionBlocks(Tail(secs))

(* lines 176-191 *)
PdfBlocks(p) ==
    << Block("paragraph", p.title, "Title"),
       Block("spacer", "", "12"),
       Block("paragraph", "Organization: " \o p.metadata.organization, "Normal"),
       Block("spacer", "", "12") >>
    \o PdfSectionBlocks(p.sections)

(* One export call as the caller saw it: the record it was given, the      *)
(* blocks handed to the writer, how often the writer was asked to write,   *)
(* what the writer did (None: it wrote the file) and what the call raised. *)
ExportCall(g, format, path, record, blocks, writes, writer, raised) ==
    [ by |-> g, format |-> format, path |-> path, record |-> record,
      blocks |-> blocks, writes |-> writes, writer |-> writer, raised |-> raised ]

(* export_to_docx with a bug: the writer's error is swallowed *)
ExportToDocxSwallowing(g, path, w) ==
    /\ pc[g] = "done"
    /\ Len(exports) < MaxExports
    /\ exports' = Append(exports,
           ExportCall(g, "docx", path, policy[g], DocxBlocks(policy[g]), 1, w, None))
    /\ log' = [log EXCEPT ![g] =
                  Append(@, [event |-> "Exported to DOCX", detail |-> path])]
    /\ UNCHANGED << environ, openai_api_key, self_api_key, pc, config,
                    section_names, sections, requests, responses, policy >>

(* export_to_docx: doc.save(output_path) writes the file or raises w, and  *)
(* nothing handles what it raises.                                         *)
ExportToDocx(g, path, w) ==
    /\ pc[g] = "done"
    /\ Len(exports) < MaxExports
    /\ exports' = Append(exports,
           ExportCall(g, "docx", path, policy[g], DocxBlocks(policy[g]), 1, w, w))
    /\ log' = [log EXCEPT ![g] =
                  IF w = None
                  THEN Append(@, [event |-> "Exported to DOCX", detail |-> path])
                  ELSE @]
    /\ UNCHANGED << environ, openai_api_key, self_api_key, pc, config,
                    section_names, sections, requests, responses, policy >>

(* export_to_pdf with a bug: the sections are consumed while rendering *)
ExportToPdfConsuming(g, path, w) ==
    /\ pc[g] = "done"
    /\ Len(exports) < MaxExports
    /\ exports' = Append(exports,
           ExportCall(g, "pdf", path, policy[g], PdfBlocks(policy[g]), 1, w, w))
    /\ policy' = [policy EXCEPT ![g].sections = << >>]
    /\ log' = [log EXCEPT ![g] =
                  IF w = None
                  THEN Append(@, [event |-> "Exported to PDF", detail |-> path])
                  ELSE @]
    /\ UNCHANGED << environ, openai_api_key, self_api_key, pc, config,
                    section_names, sections, requests, responses >>

(* export_to_pdf: doc.build(story) writes the file or raises w *)
ExportToPdf(g, path, w) ==
    /\ pc[g] = "done"
    /\ Len(exports) < MaxExports
    /\ exports' = Append(exports,
           ExportCall(g, "pdf", path, policy[g], PdfBlocks(policy[g]), 1, w, w))
    /\ log' = [log EXCEPT ![g] =
                  IF w = None
                  THEN Append(@, [event |-> "Exported to PDF", detail |-> path])
                  ELSE @]
    /\ UNCHANGED << environ, openai_api_key, self_api_key, pc, config,
                    section_names, sections, requests, responses, policy >>

----------------------------------------------------------------------------
(* Specifications                                                          *)

(* One generator, every collaborator outcome. *)
Next ==
    \E g \in {"g1"} :
        \/ \E k \in ApiKeys : Construct(g, k)
        \/ \E cfg \in Configs(Frameworks) : GeneratePolicy(g, cfg)
        \/ CallCollaborator(g)
        \/ \E o \in Outcomes : CollaboratorReturns(g, o)
        \/ ReturnPolicy(g)

Spec == Init /\ [][Next]_vars

(* A completion request blocks until it returns or fails, and the          *)
(* interpreter runs a started call to its end.                             *)
FairSpec ==
    /\ Spec
    /\ WF_vars(CallCollaborator("g1"))
    /\ WF_vars(\E o \in Outcomes : CollaboratorReturns("g1", o))
    /\ WF_vars(ReturnPolicy("g1"))

(* One generator whose record is then exported, any number of times up to  *)
(* MaxExports, by either exporter, the writer succeeding or failing.       *)
ExportOutcomes ==
    {Response(<< "generated text one" >>), Response(<< >>), Failure("RateLimitError")}

NextExport ==
    \E g \in {"g1"} :
        \/ \E k \in {"sk-A"} : Construct(g, k)
        \/ \E cfg \in Configs(Frameworks) : GeneratePolicy(g, cfg)
        \/ CallCollaborator(g)
        \/ \E o \in ExportOutcomes : CollaboratorReturns(g, o)
        \/ ReturnPolicy(g)
        \/ \E path \in Paths, w \in WriterOutcomes : ExportToDocx(g, path, w)
        \/ \E path \in Paths, w \in WriterOutcomes : ExportToPdf(g, path, w)

SpecExport == Init /\ [][NextExport]_vars

(* Two generators constructed and run in any interleaving. *)
NextConc ==
    \E g \in Gens :
        \/ \E k \in ApiKeys \ {None} : Construct(g, k)
        \/ \E cfg \in Configs({"NIS2", "SOC2"}) : GeneratePolicy(g, cfg)
        \/ CallCollaborator(g)
        \/ \E o \in FewOutcomes : CollaboratorReturns(g, o)
        \/ ReturnPolicy(g)

SpecConc == Init /\ [][NextConc]_vars

----------------------------------------------------------------------------
(* Properties                                                              *)

(* The outline of a framework as the outline table gives it: its list of   *)
(* titles, and no titles for an identifier that is not a key of the table. *)
sectionsFor(fw) ==
    IF fw \in {"ISO27001", "RGPD", "NIS2"} THEN framework_templates[fw] ELSE << >>

Returned(g) == pc[g] = "done"
Invoked(g) == pc[g] \in {"loop", "await", "done", "raised"}

(* response i of the run of g is a failure of the collaborator *)
CallFailed(g, i) ==
    \/ responses[g][i].kind = "error"
    \/ responses[g][i].choices = << >>

(* C1: the sections of the returned record carry, position by position,    *)
(* the first min(5, len(outline)) titles of the framework's outline, and   *)
(* RGPD for organization Acme yields its first five titles under the title *)
(* "RGPD Security Policy - Acme".                                          *)
C1_SectionsFollowOutline ==
    \A g \in Gens :
        Returned(g) =>
            LET outline == sectionsFor(config[g].framework)
                secs == policy[g].sections
            IN  /\ Len(secs) = (IF Len(outline) < 5 THEN Len(outline) ELSE 5)
                /\ \A i \in 1 .. Len(secs) : secs[i].title = outline[i]
                /\ (config[g].framework = "RGPD"
                        /\ config[g].organization_name = "Acme")
                    => /\ policy[g].title = "RGPD Security Policy - Acme"
                       /\ [i \in 1 .. Len(secs) |-> secs[i].title]
                            = << "Data Protection Principles",
                                 "Lawful Basis for Processing",
                                 "Data Subject Rights",
                                 "Data Security Measures",
                                 "Data Breach Notification" >>

C1_Witness ==
    /\ Returned("g1")
    /\ config["g1"].framework = "RGPD"
    /\ Len(policy["g1"].sections) = 5
    /\ CallFailed("g1", 2)
    /\ ~CallFailed("g1", 3)

(* C2: a section whose completion request failed holds exactly             *)
(* "[Section content for <its title>]", and every section whose request    *)
(* succeeded holds exactly the text returned for it, whatever the other    *)
(* requests did.                                                           *)
C2_FailureIsolatedPerSection ==
    \A g \in Gens :
        Returned(g) =>
            /\ Len(responses[g]) = Len(policy[g].sections)
            /\ \A i \in 1 .. Len(policy[g].sections) :
                  LET sec == policy[g].sections[i]
                  IN  IF CallFailed(g, i)
                      THEN sec.content = "[Section content for " \o sec.title \o "]"
                      ELSE sec.content = responses[g][i].choices[1]

C2_Witness ==
    /\ Returned("g1")
    /\ Len(policy["g1"].sections) = 5
    /\ CallFailed("g1", 2)
    /\ CallFailed("g1", 4)
    /\ responses["g1"][2] # responses["g1"][4]
    /\ ~CallFailed("g1", 1) /\ ~CallFailed("g1", 3) /\ ~CallFailed("g1", 5)
    /\ policy["g1"].sections[1].content # policy["g1"].sections[3].content
    /\ policy["g1"].sections[2].content = "[Section content for Corporate Governance]"

(* C3: a generate_policy call never ends in a raised failure, once started *)
(* it returns, and what it returns is a record with title, framework,      *)
(* sections and metadata, with zero sections for an empty outline.         *)
C3_GenerateAlwaysSucceeds ==
    /\ [](\A g \in Gens : pc[g] # "raised")
    /\ \A g \in {"g1"} : (Invoked(g) ~> Returned(g))
    /\ [](\A g \in Gens :
            Returned(g) =>
                /\ DOMAIN policy[g] = {"title", "framework", "sections", "metadata"}
                /\ DOMAIN policy[g].metadata = {"organization", "industry", "generated_by"}
                /\ (sectionsFor(config[g].framework) = << >>
                        => policy[g].sections = << >>))

C3_Witness ==
    /\ Returned("g1")
    /\ Len(responses["g1"]) = 5
    /\ \A i \in 1 .. 5 : CallFailed("g1", i)
    /\ {responses["g1"][i] : i \in 1 .. 5}
         = {Response(<< >>), Failure("APIConnectionError"), Failure("RateLimitError")}

DocumentedFrameworks == {"ISO27001", "RGPD", "GDPR", "NIS2", "SOC2", "PCI-DSS"}

(* C5: every framework the class documentation names as supported          *)
(* (ISO27001, RGPD/GDPR, NIS2, SOC2, PCI-DSS) gets a policy with at least  *)
(* one section.                                                            *)
C5_DocumentedFrameworksHaveSections ==
    \A g \in Gens :
        (Returned(g) /\ config[g].framework \in DocumentedFrameworks) =>
            Len(policy[g].sections) > 0

(* C10: within one run the completion requests are those of the first      *)
(* min(5, len(outline)) outline entries, one each, in outline order, the   *)
(* next one sent only after the previous one returned or failed, so at     *)
(* most one is outstanding; a returned run has sent exactly that many.     *)
C10_OneSequentialCallPerEntry ==
    \A g \in Gens :
        Invoked(g) =>
            LET outline == sectionsFor(config[g].framework)
                n == IF Len(outline) < 5 THEN Len(outline) ELSE 5
            IN  /\ Len(requests[g]) <= n
                /\ \A i \in 1 .. Len(requests[g]) : requests[g][i].section = outline[i]
                /\ Len(responses[g]) <= Len(requests[g])
                /\ Len(requests[g]) - Len(responses[g]) <= 1
                /\ (pc[g] = "await") <=> (Len(requests[g]) = Len(responses[g]) + 1)
                /\ Returned(g) => (Len(requests[g]) = n /\ Len(responses[g]) = n)

C10_Witness ==
    /\ pc["g1"] = "await"
    /\ Len(requests["g1"]) = 5
    /\ CallFailed("g1", 3)
    /\ config["g1"].framework = "ISO27001"

(* What a reader of an exported document sees as a heading: a python-docx *)
(* heading, or a reportlab paragraph in the Title or Heading1 style.       *)
IsHeading(b) ==
    \/ b.kind = "heading"
    \/ (b.kind = "paragraph" /\ b.style \in {"Title", "Heading1"})

IsText(b) == b.kind \in {"heading", "paragraph"}

(* the positions of the headings among the text blocks of a document *)
HeadingPositions(text) == {j \in 1 .. Len(text) : IsHeading(text[j])}

(* C6: either exporter hands the writer the title heading first, then one  *)
(* heading per section in the order of record.sections, each followed by   *)
(* that section's content before the next heading, placeholder content     *)
(* included: len(record.sections) + 1 headings in all.                     *)
C6_ExportersRenderEverySectionInOrder ==
    \A k \in 1 .. Len(exports) :
        LET e == exports[k]
            secs == e.record.sections
            text == SelectSeq(e.blocks, IsText)
            heads == SelectSeq(e.blocks, IsHeading)
            at == HeadingPositions(text)
        IN  /\ Len(heads) = Len(secs) + 1
            /\ IsHeading(e.blocks[1])
            /\ heads[1].text = e.record.title
            /\ \A i \in 1 .. Len(secs) : heads[i + 1].text = secs[i].title
            /\ \A i \in 1 .. Len(secs) :
                  \E j \in at :
                      /\ Cardinality({h \in at : h <= j}) = i + 1
                      /\ j + 1 \in 1 .. Len(text)
                      /\ ~IsHeading(text[j + 1])
                      /\ text[j + 1].text = secs[i].content
                      /\ (j + 2 \in at \/ j + 1 = Len(text))

C6_Witness ==
    /\ Len(exports) = 2
    /\ exports[1].format = "docx"
    /\ exports[2].format = "pdf"
    /\ Len(exports[1].record.sections) = 5
    /\ exports[1].record.sections[2].content = "[Section content for Lawful Basis for Processing]"
    /\ exports[1].record.sections[3].content = "generated text one"

(* the events of a log that report a finished export *)
ExportedEvents(g) ==
    SelectSeq(log[g], LAMBDA ev : ev.event \in {"Exported to DOCX", "Exported to PDF"})

CallsBy(g) == SelectSeq(exports, LAMBDA e : e.by = g)

(* C7: when the document writer fails, the export call raises the writer's *)
(* own error, has asked the writer to write at most once, and records no   *)
(* "Exported" event: the log holds one such event per export that wrote    *)
(* its file, in call order, and none for the others.                       *)
C7_WriterFailurePropagates ==
    /\ \A k \in 1 .. Len(exports) :
          /\ exports[k].writes <= 1
          /\ exports[k].raised = exports[k].writer
    /\ \A g \in Gens :
          LET written == SelectSeq(CallsBy(g), LAMBDA e : e.writer = None)
              events == ExportedEvents(g)
          IN  /\ Len(events) = Len(written)
              /\ \A i \in 1 .. Len(events) :
                    /\ events[i].detail = written[i].path
                    /\ events[i].event =
                          (IF written[i].format = "docx"
                           THEN "Exported to DOCX" ELSE "Exported to PDF")

C7_Witness ==
    /\ Len(exports) = 2
    /\ exports[1].format = "docx" /\ exports[1].writer = "PermissionError"
    /\ exports[2].format = "pdf" /\ exports[2].writer = "OSError"
    /\ ExportedEvents("g1") = << >>

(* C8: no export call, succeeding or failing, changes the record: the      *)
(* record still equals the one every earlier export call was given, and    *)
(* two calls of the same exporter rendered the same blocks.                *)
C8_ExportersOnlyRead ==
    /\ \A k \in 1 .. Len(exports) : exports[k].record = policy[exports[k].by]
    /\ \A k, m \in 1 .. Len(exports) :
          (exports[k].by = exports[m].by /\ exports[k].format = exports[m].format)
              => exports[k].blocks = exports[m].blocks

C8_Witness ==
    /\ Len(exports) = 2
    /\ exports[1].format = "pdf" /\ exports[1].raised = "OSError"
    /\ exports[2].format = "pdf" /\ exports[2].raised = None
    /\ Len(policy["g1"].sections) = 5

(* C9: the completion requests of a run carry the credentials of the       *)
(* generator instance that runs it, and the record the run returns is the  *)
(* one its own collaborator outcomes determine.                            *)
C9_RunsUseOwnCredentials ==
    \A g \in Gens :
        /\ \A i \in 1 .. Len(requests[g]) : requests[g][i].api_key = self_api_key[g]
        /\ Returned(g) =>
              /\ policy[g].title = config[g].framework \o " Security Policy - "
                                      \o config[g].organization_name
              /\ Len(policy[g].sections) = Len(responses[g])
              /\ \A i \in 1 .. Len(responses[g]) :
                    /\ policy[g].sections[i].title = sectionsFor(config[g].framework)[i]
                    /\ policy[g].sections[i].content =
                          (IF CallFailed(g, i)
                           THEN "[Section content for "
                                    \o sectionsFor(config[g].framework)[i] \o "]"
                           ELSE responses[g][i].choices[1])

=============================================================================
